---- MODULE Spec2Model ----
(***************************************************************************)
(* A model of the file-backed i18n server of src/src/routes/i18n.js: the   *)
(* manifest (language-list.json), the per-language translation documents   *)
(* (data/languages/<code>.json), the versioned archives (downloads/) and   *)
(* the HTTP handlers that mutate them, one request at a time.              *)
(*                                                                         *)
(* A translation document is a JSON tree.  It is represented by the        *)
(* function from the key paths present in it (sequences of segments) to    *)
(* what is stored there: a string leaf, or Obj for a nested object.  The   *)
(* empty object {} is the function with the empty domain.  A JSON value    *)
(* (what getNestedValue returns, what setNestedKey stores) is the same     *)
(* kind of function over relative paths, <<>> being the value's own node;  *)
(* JavaScript's undefined is the function with the empty domain.           *)
(***************************************************************************)
EXTENDS Integers, Sequences, FiniteSets, TLC

\* manifest, docs, archives: the three kinds of file on disk.  faults: the
\* input/output operations that fail in this run.  reply: the last request and
\* the status it was answered with.  pre: the files as they were when that
\* request arrived.  steps: the number of requests served.  requests: the
\* requests in flight when handlers interleave at their awaits, each with the
\* place it has reached and what it holds in memory.
VARIABLES manifest, docs, archives, faults, reply, pre, steps, requests

vars == <<manifest, docs, archives, faults, reply, pre, steps, requests>>

--------------------------------------------------------------------------
(* Bounds of the model *)

\* Number of requests in one run.
MaxSteps == 2

\* Largest major version the version-bump specification starts from.
MaxMajor == 1

--------------------------------------------------------------------------
(* Values *)

Obj == "<object>"

\* Values a request may supply.  The documents on disk at the start hold "o",
\* so that a value a request wrote can be told from one that was there.
RequestValues == {"", "x"}

Codes == {"zh-CN", "zh-TW", "fr"}

protectedLanguages == {"zh-CN", "en-US", "zh-TW"}

TemplateCode == "zh-CN"

\* Key paths a request may name: "a.b", "a.b.c", "a.c".
ValidKeys == {<<"a", "b">>, <<"a", "b", "c">>, <<"a", "c">>}

\* "" (rejected by every handler) and "a" (one segment: fails KEY_PATTERN).
EmptyKey == <<>>
OneSegmentKey == <<"a">>

\* KEY_PATTERN = /^[A-Za-z0-9_-]+(\.[A-Za-z0-9_-]+)+$/ on the split key: at
\* least two segments (the segments of the model are all well-formed).
KEY_PATTERN(key) == Len(key) >= 2

--------------------------------------------------------------------------
(* JSON trees *)

EmptyDoc == [p \in {} |-> Obj]

Undefined == [p \in {} |-> Obj]

Leaf(s) == [p \in {<<>>} |-> s]

IsPrefix(p, q) == Len(p) <= Len(q) /\ SubSeq(q, 1, Len(p)) = p

IsProperPrefix(p, q) == Len(p) < Len(q) /\ SubSeq(q, 1, Len(p)) = p

\* typeof v === 'object' (and v truthy) for the node at path p of d.
IsObject(d, p) == p \in DOMAIN d /\ d[p] = Obj

\* Object.keys(d at p).length === 0
HasNoKeys(d, p) == ~ \E q \in DOMAIN d : IsProperPrefix(p, q)

\* The JSON value stored at path k of d.
Subtree(d, k) ==
  LET under == {q \in DOMAIN d : IsPrefix(k, q)}
      rel(q) == SubSeq(q, Len(k) + 1, Len(q))
  IN  [r \in {rel(q) : q \in under} |-> d[k \o r]]

\* delete cur[last]: the node at k and everything below it.
RemoveAt(d, k) ==
  [q \in {q \in DOMAIN d : ~ IsPrefix(k, q)} |-> d[q]]

\* cur[last] = val: the node at k becomes val.
AssignAt(d, k, val) ==
  LET keep == {q \in DOMAIN d : ~ IsPrefix(k, q)}
      new == {k \o r : r \in DOMAIN val}
  IN  [q \in keep \cup new |->
         IF q \in new THEN val[SubSeq(q, Len(k) + 1, Len(q))] ELSE d[q]]

\* walkCreate creating only the segments that are absent.
RECURSIVE walkCreate_KeepsLeaves(_, _, _)
walkCreate_KeepsLeaves(d, parts, i) ==
  IF i > Len(parts) - 1 THEN d
  ELSE LET p == SubSeq(parts, 1, i)
           d1 == IF p \in DOMAIN d THEN d ELSE AssignAt(d, p, Leaf(Obj))
       IN  walkCreate_KeepsLeaves(d1, parts, i + 1)

\* The loop of setNestedKey over all segments but the last: a segment that is
\* absent, falsy or not an object is replaced by {}.
RECURSIVE walkCreate(_, _, _)
walkCreate(d, parts, i) ==
  IF i > Len(parts) - 1 THEN d
  ELSE LET p == SubSeq(parts, 1, i)
           d1 == IF IsObject(d, p) THEN d ELSE AssignAt(d, p, Leaf(Obj))
       IN  walkCreate(d1, parts, i + 1)

setNestedKey(root, keyPath, value) ==
  AssignAt(walkCreate(root, keyPath, 1), keyPath, value)

\* The inline nested write of create-key and update-key: the same walk, and
\* current[lastKey] = value || ''.
OrEmpty(value) == IF value = "" THEN "" ELSE value

nestedWrite(languageTranslations, key, value) ==
  AssignAt(walkCreate(languageTranslations, key, 1), key, Leaf(OrEmpty(value)))

\* checkKeyExists of create-key: every segment is `in` an object.
RECURSIVE checkKeyExistsFrom(_, _, _)
checkKeyExistsFrom(obj, parts, i) ==
  IF i > Len(parts) THEN TRUE
  ELSE IF i > 1 /\ ~ IsObject(obj, SubSeq(parts, 1, i - 1)) THEN FALSE
  ELSE IF SubSeq(parts, 1, i) \notin DOMAIN obj THEN FALSE
  ELSE checkKeyExistsFrom(obj, parts, i + 1)

checkKeyExists(obj, keyPath) == checkKeyExistsFrom(obj, keyPath, 1)

\* getNestedValue of rename-key.
RECURSIVE getNestedValueFrom(_, _, _)
getNestedValueFrom(obj, parts, i) ==
  IF i > Len(parts) THEN Subtree(obj, parts)
  ELSE IF i > 1 /\ ~ IsObject(obj, SubSeq(parts, 1, i - 1)) THEN Undefined
  ELSE IF SubSeq(parts, 1, i) \notin DOMAIN obj THEN Undefined
  ELSE getNestedValueFrom(obj, parts, i + 1)

getNestedValue(obj, keyPath) == getNestedValueFrom(obj, keyPath, 1)

\* The walk of deleteNestedKey over all segments but the last: TRUE when every
\* one of them is an object.
RECURSIVE walkObjects(_, _, _)
walkObjects(d, parts, i) ==
  IF i > Len(parts) - 1 THEN TRUE
  ELSE IF ~ IsObject(d, SubSeq(parts, 1, i)) THEN FALSE
  ELSE walkObjects(d, parts, i + 1)

\* pruneEmpty looking at the parent of the deleted key only.
pruneEmpty_OneLevel(d, parts, i) ==
  IF i < 1 THEN d
  ELSE LET p == SubSeq(parts, 1, i)
       IN  IF IsObject(d, p) /\ HasNoKeys(d, p) THEN RemoveAt(d, p) ELSE d

\* The clean-up loop of deleteNestedKey, from the deepest ancestor up: an
\* ancestor left without keys is deleted, and the loop stops at the first one
\* that is not.
RECURSIVE pruneEmpty(_, _, _)
pruneEmpty(d, parts, i) ==
  IF i < 1 THEN d
  ELSE LET p == SubSeq(parts, 1, i)
       IN  IF IsObject(d, p) /\ HasNoKeys(d, p)
           THEN pruneEmpty(RemoveAt(d, p), parts, i - 1)
           ELSE d

\* deleteNestedKey of delete-key: [removed, data].
deleteNestedKey(obj, keyPath, cleanEmpty) ==
  IF ~ walkObjects(obj, keyPath, 1) THEN [removed |-> FALSE, data |-> obj]
  ELSE IF keyPath \in DOMAIN obj
       THEN LET d1 == RemoveAt(obj, keyPath)
            IN  [removed |-> TRUE,
                 data |-> IF cleanEmpty
                          THEN pruneEmpty(d1, keyPath, Len(keyPath) - 1)
                          ELSE d1]
       ELSE [removed |-> FALSE, data |-> obj]

\* deleteNestedKey of rename-key: it always cleans the empty object chain.
renameDeleteNestedKey(obj, keyPath) ==
  IF ~ walkObjects(obj, keyPath, 1) THEN [removed |-> FALSE, data |-> obj]
  ELSE IF keyPath \in DOMAIN obj
       THEN [removed |-> TRUE,
             data |-> pruneEmpty(RemoveAt(obj, keyPath), keyPath,
                                 Len(keyPath) - 1)]
       ELSE [removed |-> FALSE, data |-> obj]

--------------------------------------------------------------------------
(* Versions and the manifest *)

\* A version string is the sequence of its dot-separated numbers; a manifest
\* without a version (or with the empty string) has NoVersion.
NoVersion == <<>>

DefaultVersion == <<1, 0, 0>>

\* The carry threshold of incrementVersion.
CarryAt == 100

\* while (versionParts.length < 3) versionParts.push(0)
RECURSIVE padParts(_)
padParts(parts) == IF Len(parts) < 3 THEN padParts(Append(parts, 0)) ELSE parts

\* languageList.version || '1.0.0', split on '.', mapped to numbers, padded.
parseVersion(version) ==
  padParts(IF version = NoVersion THEN DefaultVersion ELSE version)

\* bumpParts with the carry test written > instead of >=.
bumpParts_CarryLate(versionParts) ==
  LET p1 == [versionParts EXCEPT ![3] = @ + 1]
  IN  IF p1[3] > CarryAt
      THEN LET p2 == [p1 EXCEPT ![3] = 0, ![2] = @ + 1]
           IN  IF p2[2] > CarryAt
               THEN [p2 EXCEPT ![2] = 0, ![1] = @ + 1]
               ELSE p2
      ELSE p1

\* bumpParts resetting a full segment without carrying into the next one.
bumpParts_DropsCarry(versionParts) ==
  LET p1 == [versionParts EXCEPT ![3] = @ + 1]
  IN  IF p1[3] >= CarryAt THEN [p1 EXCEPT ![3] = 0] ELSE p1

\* The three-segment increment with carry at 100.
bumpParts(versionParts) ==
  LET p1 == [versionParts EXCEPT ![3] = @ + 1]
  IN  IF p1[3] >= CarryAt
      THEN LET p2 == [p1 EXCEPT ![3] = 0, ![2] = @ + 1]
           IN  IF p2[2] >= CarryAt
               THEN [p2 EXCEPT ![2] = 0, ![1] = @ + 1]
               ELSE p2
      ELSE p1

\* The files on disk, and the operations on them that fail, as the helpers
\* below pass them along.
Disk(m, d, a, f) == [manifest |-> m, docs |-> d, archives |-> a, faults |-> f]

\* The archiver (archive.on('error')) fails.
ArchiveFault == "archive"

\* fs.writeJson of the file of language `code` fails: the code is among the
\* faults.
WriteFails(disk, code) == code \in disk.faults

\* createLanguagePackage(version): language-<version>.zip is removed if it is
\* there and written anew from the manifest file and the languages directory
\* as they are now.  When the archiver fails the promise is rejected and no
\* archive of that version is left: [threw, disk].
createLanguagePackage(disk, version) ==
  LET zip == [manifest |-> disk.manifest, docs |-> disk.docs]
      removed == [v \in DOMAIN disk.archives \ {version} |-> disk.archives[v]]
  IN  IF ArchiveFault \in disk.faults
      THEN [threw |-> TRUE, disk |-> [disk EXCEPT !.archives = removed]]
      ELSE [threw |-> FALSE,
            disk |-> [disk EXCEPT !.archives =
                        [v \in DOMAIN disk.archives \cup {version} |->
                           IF v = version THEN zip ELSE disk.archives[v]]]]

\* incrementVersion(): read the manifest, bump, stamp, write it back, package;
\* an error of the packaging is thrown on: [threw, disk].
incrementVersion(disk, now) ==
  LET languageList == disk.manifest
      newVersion == bumpParts(parseVersion(languageList.version))
      written == [languageList EXCEPT !.version = newVersion,
                                      !.lastUpdated = now]
  IN  createLanguagePackage([disk EXCEPT !.manifest = written], newVersion)

\* The codes of languageList.languages, in the order of the list.
LangCodes(languageList) ==
  {languageList.languages[i].code : i \in DOMAIN languageList.languages}

\* fs.pathExists / fs.readJson of a language file, {} when the file is absent.
ReadOrEmpty(d, code) == IF code \in DOMAIN d THEN d[code] ELSE EmptyDoc

\* fs.writeJson of the language files in `written` (code -> document).
WriteDocs(d, written) ==
  [c \in DOMAIN d \cup DOMAIN written |->
     IF c \in DOMAIN written THEN written[c] ELSE d[c]]

--------------------------------------------------------------------------
(* Propagation *)

\* The `exists` probe of propagateKeyToAllLanguages.
RECURSIVE probeExists(_, _, _)
probeExists(data, parts, i) ==
  IF i = Len(parts) THEN parts \in DOMAIN data
  ELSE IF ~ IsObject(data, SubSeq(parts, 1, i)) THEN FALSE
  ELSE probeExists(data, parts, i + 1)

NoCode == "<null>"

\* providedMap: null, or an object from codes to values.
NoMap == [isNull |-> TRUE, entries |-> [c \in {} |-> ""]]

Provided(m) == [isNull |-> FALSE, entries |-> m]

\* propagateOne writing "" over a key that exists when the call has no value
\* for the language.
propagateOne_AlwaysFills(data, code, key, justUpdatedCode, updatedValue, providedMap) ==
  LET val == IF ~ providedMap.isNull /\ code \in DOMAIN providedMap.entries
             THEN providedMap.entries[code]
             ELSE IF code = justUpdatedCode THEN updatedValue ELSE ""
  IN  [wrote |-> TRUE, data |-> setNestedKey(data, key, Leaf(val))]

\* What propagateKeyToAllLanguages does to one language: the document it
\* writes, or the one it read when it writes nothing.
propagateOne(data, code, key, justUpdatedCode, updatedValue, providedMap) ==
  IF ~ probeExists(data, key, 1)
  THEN LET val == IF ~ providedMap.isNull
                  THEN (IF code \in DOMAIN providedMap.entries
                        THEN providedMap.entries[code] ELSE "")
                  ELSE (IF code = justUpdatedCode THEN updatedValue ELSE "")
       IN  [wrote |-> TRUE, data |-> setNestedKey(data, key, Leaf(val))]
  ELSE IF justUpdatedCode # NoCode /\ code = justUpdatedCode
  THEN [wrote |-> TRUE, data |-> setNestedKey(data, key, Leaf(updatedValue))]
  ELSE IF ~ providedMap.isNull /\ code \in DOMAIN providedMap.entries
  THEN [wrote |-> TRUE,
        data |-> setNestedKey(data, key, Leaf(providedMap.entries[code]))]
  ELSE [wrote |-> FALSE, data |-> data]

\* propagateKeyToAllLanguages: every language of the manifest in turn (each has
\* its own file), then one incrementVersion.  An error is caught and logged:
\* that of incrementVersion, and that of a write, which ends the loop at that
\* language and skips incrementVersion.
propagateKeyToAllLanguages(disk, now, key, justUpdatedCode, updatedValue, providedMap) ==
  LET languageList == disk.manifest
      codeAt(i) == languageList.languages[i].code
      one(c) == propagateOne(ReadOrEmpty(disk.docs, c), c, key,
                             justUpdatedCode, updatedValue, providedMap)
      failing == {i \in DOMAIN languageList.languages :
                    one(codeAt(i)).wrote /\ WriteFails(disk, codeAt(i))}
      reached == {i \in DOMAIN languageList.languages :
                    \A j \in failing : i < j}
      touched == {codeAt(i) : i \in {j \in reached : one(codeAt(j)).wrote}}
      written == [c \in touched |-> one(c).data]
      d1 == [disk EXCEPT !.docs = WriteDocs(disk.docs, written)]
  IN  IF failing = {} THEN incrementVersion(d1, now).disk ELSE d1

--------------------------------------------------------------------------
(* Requests *)

\* request.body.translations: an object from codes to values, or missing.
Translations(m) == [isObject |-> TRUE, entries |-> m]

MissingTranslations == [isObject |-> FALSE, entries |-> [c \in {} |-> ""]]

\* Translation objects of requests: any subset of the codes, with "x" for
\* zh-CN and zh-TW and "" or "x" for fr.
TransMaps ==
  {m \in UNION {[S -> RequestValues] : S \in SUBSET Codes} :
     \A c \in DOMAIN m : c # "fr" => m[c] = "x"}

\* (key, translations) bodies of create-key and update-key.
KeyBodies ==
  {<<k, Translations(m)>> : k \in ValidKeys, m \in TransMaps}
    \cup {<<OneSegmentKey, Translations([c \in {"zh-CN"} |-> "x"])>>,
          <<EmptyKey, Translations([c \in {"zh-CN"} |-> "x"])>>,
          <<<<"a", "b">>, MissingTranslations>>}

\* (oldKey, newKey) bodies of rename-key.
RenamePairs ==
  {pair \in ValidKeys \X ValidKeys : pair[1] # pair[2]}
    \cup {<<<<"a", "b">>, <<"a", "b">>>>,
          <<OneSegmentKey, <<"a", "b">>>>, <<EmptyKey, <<"a", "b">>>>}

\* key bodies of delete-key.
DeleteKeys == ValidKeys \cup {OneSegmentKey, EmptyKey}

\* A document from its leaves (path -> string): the ancestors are objects.
DocOf(leaves) ==
  LET anc == UNION {{SubSeq(p, 1, n) : n \in 1..Len(p)} : p \in DOMAIN leaves}
      nodes == anc \cup DOMAIN leaves
  IN  [q \in nodes |-> IF q \in DOMAIN leaves THEN leaves[q] ELSE Obj]

\* Whole documents a replace-language request may carry.
ReplaceDocs ==
  {DocOf([p \in {} |-> ""]),
   DocOf([p \in {<<"a", "b">>} |-> "x"])}

\* The clock read by new Date(): it advances with every request.
Now == steps + 1

--------------------------------------------------------------------------
(* POST /languages/create-key *)

\* The per-language writes of create-key and update-key, one file per entry.
writeTranslations(d, key, entries) ==
  WriteDocs(d, [c \in DOMAIN entries |->
                  nestedWrite(ReadOrEmpty(d, c), key, entries[c])])

\* The entries whose write succeeds (results) and the codes of those whose
\* write fails (errors): each entry has its own try/catch.
succeeded(disk, entries) ==
  [c \in {e \in DOMAIN entries : ~ WriteFails(disk, e)} |-> entries[c]]

failed(disk, entries) == {c \in DOMAIN entries : WriteFails(disk, c)}

\* keyExistsAnywhere looking only at the first language of the manifest.
keyExistsAnywhere_FirstOnly(languageList, d, key) ==
  LET c == languageList.languages[1].code
  IN  c \in DOMAIN d /\ checkKeyExists(d[c], key)

\* The duplicate check of create-key over the languages of the manifest.
keyExistsAnywhere(languageList, d, key) ==
  \E c \in LangCodes(languageList) :
     c \in DOMAIN d /\ checkKeyExists(d[c], key)

\* The try/catch around a handler that ends with incrementVersion(): 500 when
\* it threw, success otherwise.
caught(bumped) ==
  [status |-> IF bumped.threw THEN 500 ELSE 200, disk |-> bumped.disk]

\* The handler: [status, disk, errors].
createKey(disk, now, key, translations) ==
  IF key = EmptyKey THEN [status |-> 400, disk |-> disk, errors |-> {}]
  ELSE IF ~ translations.isObject
  THEN [status |-> 400, disk |-> disk, errors |-> {}]
  ELSE IF keyExistsAnywhere(disk.manifest, disk.docs, key)
  THEN [status |-> 409, disk |-> disk, errors |-> {}]
  ELSE LET results == succeeded(disk, translations.entries)
           d1 == [disk EXCEPT
                    !.docs = writeTranslations(disk.docs, key, results)]
       IN  [status |-> 200,
            disk |-> IF DOMAIN results # {}
                     THEN propagateKeyToAllLanguages(d1, now, key, NoCode, "",
                                                     Provided(results))
                     ELSE d1,
            errors |-> failed(disk, translations.entries)]

CreateKey ==
  /\ steps < MaxSteps
  /\ \E body \in KeyBodies :
       \E r \in {createKey(Disk(manifest, docs, archives, faults), Now,
                          body[1], body[2])} :
           /\ manifest' = r.disk.manifest
           /\ docs' = r.disk.docs
           /\ archives' = r.disk.archives
           /\ pre' = Disk(manifest, docs, archives, faults)
           /\ reply' = [op |-> "create-key", status |-> r.status,
                        key |-> body[1], translations |-> body[2],
                        errors |-> r.errors]
  /\ steps' = steps + 1
  /\ UNCHANGED <<faults, requests>>

--------------------------------------------------------------------------
(* PUT /languages/update-key *)

updateKey(disk, now, key, translations) ==
  IF key = EmptyKey THEN [status |-> 400, disk |-> disk, errors |-> {}]
  ELSE IF ~ translations.isObject
  THEN [status |-> 400, disk |-> disk, errors |-> {}]
  ELSE LET results == succeeded(disk, translations.entries)
           d1 == [disk EXCEPT
                    !.docs = writeTranslations(disk.docs, key, results)]
           bumped == incrementVersion(d1, now)
       IN  [status |-> IF bumped.threw THEN 500 ELSE 200, disk |-> bumped.disk,
            errors |-> failed(disk, translations.entries)]

UpdateKey ==
  /\ steps < MaxSteps
  /\ \E body \in KeyBodies :
       \E r \in {updateKey(Disk(manifest, docs, archives, faults), Now,
                          body[1], body[2])} :
           /\ manifest' = r.disk.manifest
           /\ docs' = r.disk.docs
           /\ archives' = r.disk.archives
           /\ pre' = Disk(manifest, docs, archives, faults)
           /\ reply' = [op |-> "update-key", status |-> r.status,
                        key |-> body[1], translations |-> body[2],
                        errors |-> r.errors]
  /\ steps' = steps + 1
  /\ UNCHANGED <<faults, requests>>

--------------------------------------------------------------------------
(* POST /languages/rename-key *)

\* renameConflict testing the value for truthiness instead of !== undefined.
renameConflict_Truthy(languageList, d, newKey) ==
  \E c \in LangCodes(languageList) :
     /\ c \in DOMAIN d
     /\ getNestedValue(d[c], newKey) # Undefined
     /\ getNestedValue(d[c], newKey) # Leaf("")

\* The conflict check: newKey has a value in the file of some language.
renameConflict(languageList, d, newKey) ==
  \E c \in LangCodes(languageList) :
     c \in DOMAIN d /\ getNestedValue(d[c], newKey) # Undefined

\* The body of the move loop for one language: [moved, data].
renameOne(data, oldKey, newKey, overwrite) ==
  LET val == getNestedValue(data, oldKey)
  IN  IF val # Undefined
      THEN LET d1 == IF getNestedValue(data, newKey) = Undefined \/ overwrite
                     THEN setNestedKey(data, newKey, val)
                     ELSE data
           IN  [moved |-> TRUE, data |-> renameDeleteNestedKey(d1, oldKey).data]
      ELSE [moved |-> FALSE, data |-> data]

\* The move loop over the languages of the manifest: the files it writes.
renameAll(languageList, d, oldKey, newKey, overwrite) ==
  LET one(c) == renameOne(ReadOrEmpty(d, c), oldKey, newKey, overwrite)
      movedIn == {c \in LangCodes(languageList) : one(c).moved}
  IN  WriteDocs(d, [c \in movedIn |-> one(c).data])

renameKey(disk, now, oldKey, newKey, overwrite) ==
  IF oldKey = EmptyKey \/ newKey = EmptyKey
  THEN [status |-> 400, disk |-> disk]
  ELSE IF oldKey = newKey THEN [status |-> 400, disk |-> disk]
  ELSE IF ~ KEY_PATTERN(oldKey) \/ ~ KEY_PATTERN(newKey)
  THEN [status |-> 400, disk |-> disk]
  ELSE IF renameConflict(disk.manifest, disk.docs, newKey) /\ ~ overwrite
  THEN [status |-> 409, disk |-> disk]
  ELSE LET d1 == [disk EXCEPT
                    !.docs = renameAll(disk.manifest, disk.docs, oldKey,
                                       newKey, overwrite)]
       IN  caught(incrementVersion(d1, now))

RenameKey ==
  /\ steps < MaxSteps
  /\ \E pair \in RenamePairs, overwrite \in BOOLEAN :
       \E r \in {renameKey(Disk(manifest, docs, archives, faults), Now,
                          pair[1], pair[2], overwrite)} :
           /\ manifest' = r.disk.manifest
           /\ docs' = r.disk.docs
           /\ archives' = r.disk.archives
           /\ pre' = Disk(manifest, docs, archives, faults)
           /\ reply' = [op |-> "rename-key", status |-> r.status,
                        oldKey |-> pair[1], newKey |-> pair[2],
                        overwrite |-> overwrite]
  /\ steps' = steps + 1
  /\ UNCHANGED <<faults, requests>>

--------------------------------------------------------------------------
(* POST /languages/delete-key *)

\* The languages whose file exists and loses the key.
deletedLanguages(languageList, d, key, cleanEmpty) ==
  {c \in LangCodes(languageList) :
     c \in DOMAIN d /\ deleteNestedKey(d[c], key, cleanEmpty).removed}

\* deleteKey without the early return for a key found nowhere.
deleteKey_AlwaysBumps(disk, now, key, cleanEmpty) ==
  IF key = EmptyKey THEN [status |-> 400, disk |-> disk, deleted |-> {}]
  ELSE IF ~ KEY_PATTERN(key)
  THEN [status |-> 400, disk |-> disk, deleted |-> {}]
  ELSE LET gone == deletedLanguages(disk.manifest, disk.docs, key, cleanEmpty)
           d1 == [disk EXCEPT
                    !.docs = WriteDocs(disk.docs,
                       [c \in gone |->
                          deleteNestedKey(disk.docs[c], key, cleanEmpty).data])]
           bumped == incrementVersion(d1, now)
       IN  [status |-> IF bumped.threw THEN 500 ELSE 200, disk |-> bumped.disk,
            deleted |-> gone]

deleteKey(disk, now, key, cleanEmpty) ==
  IF key = EmptyKey THEN [status |-> 400, disk |-> disk, deleted |-> {}]
  ELSE IF ~ KEY_PATTERN(key)
  THEN [status |-> 400, disk |-> disk, deleted |-> {}]
  ELSE LET gone == deletedLanguages(disk.manifest, disk.docs, key, cleanEmpty)
           d1 == [disk EXCEPT
                    !.docs = WriteDocs(disk.docs,
                       [c \in gone |->
                          deleteNestedKey(disk.docs[c], key, cleanEmpty).data])]
           bumped == incrementVersion(d1, now)
       IN  IF gone = {}
           THEN [status |-> 200, disk |-> disk, deleted |-> {}]
           ELSE [status |-> IF bumped.threw THEN 500 ELSE 200,
                 disk |-> bumped.disk, deleted |-> gone]

DeleteKey ==
  /\ steps < MaxSteps
  /\ \E key \in DeleteKeys, cleanEmpty \in BOOLEAN :
       \E r \in {deleteKey(Disk(manifest, docs, archives, faults), Now, key, cleanEmpty)} :
           /\ manifest' = r.disk.manifest
           /\ docs' = r.disk.docs
           /\ archives' = r.disk.archives
           /\ pre' = Disk(manifest, docs, archives, faults)
           /\ reply' = [op |-> "delete-key", status |-> r.status,
                        key |-> key, cleanEmpty |-> cleanEmpty,
                        deletedLanguages |-> r.deleted]
  /\ steps' = steps + 1
  /\ UNCHANGED <<faults, requests>>

--------------------------------------------------------------------------
(* POST /language/:code/update *)

replaceLanguage(disk, now, code, translations) ==
  IF ~ translations.isObject THEN [status |-> 400, disk |-> disk]
  ELSE LET d1 == [disk EXCEPT
                    !.docs = WriteDocs(disk.docs,
                                       [c \in {code} |-> translations.doc])]
       IN  caught(incrementVersion(d1, now))

\* request.body.translations of replace-language: a whole document, or missing.
ReplaceBodies ==
  {[isObject |-> TRUE, doc |-> d] : d \in ReplaceDocs}
    \cup {[isObject |-> FALSE, doc |-> EmptyDoc]}

ReplaceLanguage ==
  /\ steps < MaxSteps
  /\ \E code \in Codes, translations \in ReplaceBodies :
       \E r \in {replaceLanguage(Disk(manifest, docs, archives, faults), Now,
                                code, translations)} :
           /\ manifest' = r.disk.manifest
           /\ docs' = r.disk.docs
           /\ archives' = r.disk.archives
           /\ pre' = Disk(manifest, docs, archives, faults)
           /\ reply' = [op |-> "replace-language", status |-> r.status,
                        code |-> code, translations |-> translations]
  /\ steps' = steps + 1
  /\ UNCHANGED <<faults, requests>>

--------------------------------------------------------------------------
(* POST /language *)

\* clearValues leaving the values of the template in place.
clearValues_KeepsValues(obj) == obj

\* clearValues: every leaf becomes '', the nested objects stay.
clearValues(obj) ==
  [q \in DOMAIN obj |-> IF obj[q] = Obj THEN Obj ELSE ""]

\* A body without code, name or nativeName has the code "".
NoCodeGiven == ""

\* existingLanguage with the lookup finding nothing.
existingLanguage_Never(languageList, code) == FALSE

\* languageList.languages.find(lang => lang.code === code)
existingLanguage(languageList, code) == code \in LangCodes(languageList)

addLanguage(disk, now, code, enabled) ==
  IF code = NoCodeGiven THEN [status |-> 400, disk |-> disk]
  ELSE IF existingLanguage(disk.manifest, code)
  THEN [status |-> 409, disk |-> disk]
  ELSE LET languageList == disk.manifest
           newLanguage == [code |-> code, enabled |-> enabled]
           template == IF TemplateCode \in DOMAIN disk.docs
                       THEN clearValues(disk.docs[TemplateCode])
                       ELSE EmptyDoc
           pushed == [languageList EXCEPT
                        !.languages = Append(@, newLanguage)]
           d1 == [disk EXCEPT
                    !.manifest = pushed,
                    !.docs = WriteDocs(disk.docs, [c \in {code} |-> template])]
       IN  caught(incrementVersion(d1, now))

AddLanguage ==
  /\ steps < MaxSteps
  /\ \E code \in Codes \cup {NoCodeGiven}, enabled \in BOOLEAN :
       \E r \in {addLanguage(Disk(manifest, docs, archives, faults), Now, code, enabled)} :
           /\ manifest' = r.disk.manifest
           /\ docs' = r.disk.docs
           /\ archives' = r.disk.archives
           /\ pre' = Disk(manifest, docs, archives, faults)
           /\ reply' = [op |-> "add-language", status |-> r.status,
                        code |-> code, enabled |-> enabled]
  /\ steps' = steps + 1
  /\ UNCHANGED <<faults, requests>>

--------------------------------------------------------------------------
(* POST /language/:code/delete *)

\* languages.splice(languageIndex, 1) for the first descriptor with the code.
spliceCode(languages, code) ==
  LET languageIndex ==
        CHOOSE i \in DOMAIN languages :
          /\ languages[i].code = code
          /\ \A j \in 1..(i - 1) : languages[j].code # code
  IN  SubSeq(languages, 1, languageIndex - 1)
        \o SubSeq(languages, languageIndex + 1, Len(languages))

\* fs.remove of a language file when it exists.
RemoveDoc(d, code) == [c \in DOMAIN d \ {code} |-> d[c]]

\* deleteLanguage without the protected-language check.
deleteLanguage_Unprotected(disk, now, code) ==
  IF code \notin LangCodes(disk.manifest)
  THEN [status |-> 404, disk |-> disk]
  ELSE LET d1 == [disk EXCEPT
                    !.manifest.languages = spliceCode(@, code)]
           bumped == incrementVersion(d1, now)
       IN  IF bumped.threw THEN [status |-> 500, disk |-> bumped.disk]
           ELSE [status |-> 200,
                 disk |-> [bumped.disk EXCEPT !.docs = RemoveDoc(@, code)]]

deleteLanguage(disk, now, code) ==
  IF code \notin LangCodes(disk.manifest)
  THEN [status |-> 404, disk |-> disk]
  ELSE IF code \in protectedLanguages
  THEN [status |-> 400, disk |-> disk]
  ELSE LET d1 == [disk EXCEPT
                    !.manifest.languages = spliceCode(@, code)]
           bumped == incrementVersion(d1, now)
       IN  IF bumped.threw THEN [status |-> 500, disk |-> bumped.disk]
           ELSE [status |-> 200,
                 disk |-> [bumped.disk EXCEPT !.docs = RemoveDoc(@, code)]]

DeleteLanguage ==
  /\ steps < MaxSteps
  /\ \E code \in Codes :
       \E r \in {deleteLanguage(Disk(manifest, docs, archives, faults), Now, code)} :
           /\ manifest' = r.disk.manifest
           /\ docs' = r.disk.docs
           /\ archives' = r.disk.archives
           /\ pre' = Disk(manifest, docs, archives, faults)
           /\ reply' = [op |-> "delete-language", status |-> r.status,
                        code |-> code]
  /\ steps' = steps + 1
  /\ UNCHANGED <<faults, requests>>

--------------------------------------------------------------------------
(* The read-only requests *)

\* GET /language/:code
getLanguage(disk, code) ==
  IF code \notin DOMAIN disk.docs
  THEN [status |-> 404, disk |-> disk, data |-> EmptyDoc]
  ELSE [status |-> 200, disk |-> disk, data |-> disk.docs[code]]

GetLanguage ==
  /\ steps < MaxSteps
  /\ \E code \in Codes :
       \E r \in {getLanguage(Disk(manifest, docs, archives, faults), code)} :
           /\ manifest' = r.disk.manifest
           /\ docs' = r.disk.docs
           /\ archives' = r.disk.archives
           /\ pre' = Disk(manifest, docs, archives, faults)
           /\ reply' = [op |-> "get-language", status |-> r.status,
                        code |-> code, data |-> r.data]
  /\ steps' = steps + 1
  /\ UNCHANGED <<faults, requests>>

\* GET /data/complete: the manifest and the documents of the enabled languages
\* (of all of them with includeDisabled) whose file exists.
getDataComplete(disk, includeDisabled) ==
  LET languageList == disk.manifest
      target == {languageList.languages[i].code :
                   i \in {j \in DOMAIN languageList.languages :
                            includeDisabled \/ languageList.languages[j].enabled}}
      messages == [c \in target \cap DOMAIN disk.docs |-> disk.docs[c]]
  IN  [status |-> 200, disk |-> disk,
       data |-> [version |-> languageList.version,
                 lastUpdated |-> languageList.lastUpdated,
                 languages |-> languageList.languages,
                 messages |-> messages]]

GetDataComplete ==
  /\ steps < MaxSteps
  /\ \E includeDisabled \in BOOLEAN :
       \E r \in {getDataComplete(Disk(manifest, docs, archives, faults),
                                includeDisabled)} :
           /\ manifest' = r.disk.manifest
           /\ docs' = r.disk.docs
           /\ archives' = r.disk.archives
           /\ pre' = Disk(manifest, docs, archives, faults)
           /\ reply' = [op |-> "data-complete", status |-> r.status,
                        includeDisabled |-> includeDisabled, data |-> r.data]
  /\ steps' = steps + 1
  /\ UNCHANGED <<faults, requests>>

\* A file name of the downloads directory: `${prefix}${version}.zip`.  The
\* archives are the files with the prefix "language-".
FileName(prefix, version) == [prefix |-> prefix, version |-> version]

ArchivePrefix == "language-"

PackPrefix == "language-pack-"

\* fs.pathExists(path.join(DOWNLOADS_DIR, fileName))
DownloadExists(disk, fileName) ==
  fileName.prefix = ArchivePrefix /\ fileName.version \in DOMAIN disk.archives

\* downloadLatest bumping the version to get an archive when none is there.
downloadLatest_Bumps(disk) ==
  LET fileName == FileName(ArchivePrefix, disk.manifest.version)
      built == IF ~ DownloadExists(disk, fileName)
               THEN incrementVersion(disk, disk.manifest.lastUpdated)
               ELSE [threw |-> FALSE, disk |-> disk]
  IN  [status |-> IF built.threw THEN 500 ELSE 200, disk |-> built.disk,
       data |-> [downloadUrl |-> fileName, fileName |-> fileName]]

\* GET /download/latest: the archive of the current version is built when it is
\* not there.
downloadLatest(disk) ==
  LET languageList == disk.manifest
      currentVersion == languageList.version
      fileName == FileName(ArchivePrefix, currentVersion)
      built == IF ~ DownloadExists(disk, fileName)
               THEN createLanguagePackage(disk, currentVersion)
               ELSE [threw |-> FALSE, disk |-> disk]
  IN  IF built.threw
      THEN [status |-> 500, disk |-> built.disk,
            data |-> [downloadUrl |-> fileName, fileName |-> fileName]]
      ELSE [status |-> 200, disk |-> built.disk,
            data |-> [downloadUrl |-> fileName,
                      fileName |-> FileName(PackPrefix, currentVersion)]]

DownloadLatest ==
  /\ steps < MaxSteps
  /\ \E r \in {downloadLatest(Disk(manifest, docs, archives, faults))} :
         /\ manifest' = r.disk.manifest
         /\ docs' = r.disk.docs
         /\ archives' = r.disk.archives
         /\ pre' = Disk(manifest, docs, archives, faults)
         /\ reply' = [op |-> "download-latest", status |-> r.status,
                      data |-> r.data]
  /\ steps' = steps + 1
  /\ UNCHANGED <<faults, requests>>

\* GET /download/file/:fileName: the file of the downloads directory (nothing
\* is in the temp directory, which no handler writes).
downloadFile(disk, fileName) ==
  IF DownloadExists(disk, fileName)
  THEN [status |-> 200, disk |-> disk]
  ELSE [status |-> 404, disk |-> disk]

\* File names a download request may ask for.
FileNames(disk) ==
  {FileName(prefix, v) :
     prefix \in {ArchivePrefix, PackPrefix},
     v \in DOMAIN disk.archives \cup {disk.manifest.version}}

DownloadFile ==
  /\ steps < MaxSteps
  /\ \E fileName \in FileNames(Disk(manifest, docs, archives, faults)) :
       \E r \in {downloadFile(Disk(manifest, docs, archives, faults), fileName)} :
           /\ manifest' = r.disk.manifest
           /\ docs' = r.disk.docs
           /\ archives' = r.disk.archives
           /\ pre' = Disk(manifest, docs, archives, faults)
           /\ reply' = [op |-> "download-file", status |-> r.status,
                        fileName |-> fileName]
  /\ steps' = steps + 1
  /\ UNCHANGED <<faults, requests>>

\* createPackage building the archive by way of incrementVersion().
createPackage_Bumps(disk) ==
  LET built == incrementVersion(disk, disk.manifest.lastUpdated)
  IN  [status |-> IF built.threw THEN 500 ELSE 200, disk |-> built.disk,
       data |-> [fileName |-> FileName(ArchivePrefix, disk.manifest.version),
                 version |-> disk.manifest.version]]

\* POST /download/create-package: the archive of the current version is built,
\* in place of the one that is there.
createPackage(disk) ==
  LET languageList == disk.manifest
      currentVersion == languageList.version
      built == createLanguagePackage(disk, currentVersion)
  IN  [status |-> IF built.threw THEN 500 ELSE 200, disk |-> built.disk,
       data |-> [fileName |-> FileName(ArchivePrefix, currentVersion),
                 version |-> currentVersion]]

CreatePackage ==
  /\ steps < MaxSteps
  /\ \E r \in {createPackage(Disk(manifest, docs, archives, faults))} :
         /\ manifest' = r.disk.manifest
         /\ docs' = r.disk.docs
         /\ archives' = r.disk.archives
         /\ pre' = Disk(manifest, docs, archives, faults)
         /\ reply' = [op |-> "create-package", status |-> r.status,
                      data |-> r.data]
  /\ steps' = steps + 1
  /\ UNCHANGED <<faults, requests>>

--------------------------------------------------------------------------
(* The server *)

Descriptor(code) == [code |-> code, enabled |-> TRUE]

\* Versions the manifest may hold when the server starts.
InitVersions == {NoVersion, <<1, 0, 0>>, <<0, 0, 99>>, <<0, 99, 99>>}

\* The language files on disk when the server starts: zh-CN and fr hold the
\* same key, or one holds a key the other lacks, or fr has no file.
InitDisks ==
  LET both(d1, d2) == [c \in {"zh-CN", "fr"} |-> IF c = "zh-CN" THEN d1 ELSE d2]
      ab == DocOf([p \in {<<"a", "b">>} |-> "o"])
      ac == DocOf([p \in {<<"a", "c">>} |-> "o"])
      abc == DocOf([p \in {<<"a", "b", "c">>} |-> "o"])
      abac == DocOf([p \in {<<"a", "b">>, <<"a", "c">>} |-> "o"])
  IN  {both(EmptyDoc, EmptyDoc), both(ab, ab), both(abac, ab), both(abc, abc),
       both(ab, ac), [c \in {"zh-CN"} |-> ab]}

Init ==
  /\ \E v \in InitVersions :
       manifest = [version |-> v, lastUpdated |-> 0,
                   defaultLanguage |-> "zh-CN", fallbackLanguage |-> "zh-CN",
                   languages |-> <<Descriptor("zh-CN"), Descriptor("fr")>>]
  /\ docs \in InitDisks
  /\ archives = [v \in {} |-> 0]
  /\ faults = {}
  /\ requests = <<>>
  /\ reply = [op |-> "none", status |-> 0]
  /\ pre = Disk(manifest, docs, archives, faults)
  /\ steps = 0

Next ==
  \/ CreateKey
  \/ UpdateKey
  \/ RenameKey
  \/ DeleteKey
  \/ ReplaceLanguage
  \/ AddLanguage
  \/ DeleteLanguage
  \/ GetLanguage
  \/ GetDataComplete
  \/ DownloadLatest
  \/ DownloadFile
  \/ CreatePackage

Spec == Init /\ [][Next]_vars

\* The same server in a run in which the archiver fails.
InitFaulty ==
  /\ manifest = [version |-> <<1, 0, 0>>, lastUpdated |-> 0,
                 defaultLanguage |-> "zh-CN", fallbackLanguage |-> "zh-CN",
                 languages |-> <<Descriptor("zh-CN"), Descriptor("fr")>>]
  /\ docs \in InitDisks
  /\ archives = [v \in {} |-> 0]
  /\ faults = {ArchiveFault}
  /\ reply = [op |-> "none", status |-> 0]
  /\ pre = Disk(manifest, docs, archives, faults)
  /\ steps = 0
  /\ requests = <<>>

SpecFaulty == InitFaulty /\ [][Next]_vars

\* create-key and update-key in a run in which the file of one language cannot
\* be written; the manifest lists three languages, which define the same keys.
InitWriteFaults ==
  /\ manifest = [version |-> <<1, 0, 0>>, lastUpdated |-> 0,
                 defaultLanguage |-> "zh-CN", fallbackLanguage |-> "zh-CN",
                 languages |-> <<Descriptor("zh-CN"), Descriptor("zh-TW"),
                                 Descriptor("fr")>>]
  /\ \E d \in {EmptyDoc, DocOf([p \in {<<"a", "b">>} |-> "o"])} :
       docs = [c \in Codes |-> d]
  /\ archives = [v \in {} |-> 0]
  /\ \E c \in Codes : faults = {c}
  /\ reply = [op |-> "none", status |-> 0]
  /\ pre = Disk(manifest, docs, archives, faults)
  /\ steps = 0
  /\ requests = <<>>

NextKeys ==
  \/ CreateKey
  \/ UpdateKey

SpecWriteFaults == InitWriteFaults /\ [][NextKeys]_vars

--------------------------------------------------------------------------
(* The version bump on its own *)

\* Every version (major, minor, patch) with major up to MaxMajor and minor and
\* patch below the carry threshold, and the manifest without a version.
BumpInputs ==
  {NoVersion} \cup ((0..MaxMajor) \X (0..(CarryAt - 1)) \X (0..(CarryAt - 1)))

InitVersion ==
  /\ \E v \in BumpInputs :
       manifest = [version |-> v, lastUpdated |-> 0,
                   defaultLanguage |-> "zh-CN", fallbackLanguage |-> "zh-CN",
                   languages |-> <<Descriptor("zh-CN"), Descriptor("fr")>>]
  /\ docs = [c \in {"zh-CN", "fr"} |-> EmptyDoc]
  /\ archives = [v \in {} |-> 0]
  /\ faults = {}
  /\ requests = <<>>
  /\ reply = [op |-> "none", status |-> 0]
  /\ pre = Disk(manifest, docs, archives, faults)
  /\ steps = 0

\* One call of incrementVersion().
Bump ==
  /\ steps < MaxSteps
  /\ \E d \in {incrementVersion(Disk(manifest, docs, archives, faults), Now).disk} :
         /\ manifest' = d.manifest
         /\ docs' = d.docs
         /\ archives' = d.archives
  /\ pre' = Disk(manifest, docs, archives, faults)
  /\ reply' = [op |-> "bump", status |-> 0]
  /\ steps' = steps + 1
  /\ UNCHANGED <<faults, requests>>

SpecVersion == InitVersion /\ [][Bump]_vars

--------------------------------------------------------------------------
(* add-language and delete-language, interleaved at their awaits *)

\* Number of requests in one run of the interleaved handlers.
MaxRequests == 2

RequestIds == 1..MaxRequests

\* A request that has not arrived yet.
Idle == [op |-> "none", pc |-> "idle", status |-> 0]

\* What a request holds between two awaits: its languageList object and the
\* template it read.
Running(op, code, pc, status, languageList, template, pending) ==
  [op |-> op, code |-> code, pc |-> pc, status |-> status,
   languageList |-> languageList, template |-> template, pending |-> pending]

\* (defaultLanguage, fallbackLanguage) of the manifest at the start.
InitDefaults == {<<"zh-CN", "zh-CN">>, <<"zh-CN", "fr">>, <<"fr", "zh-CN">>}

InitLanguages ==
  /\ \E dflt \in InitDefaults :
       manifest = [version |-> <<1, 0, 0>>, lastUpdated |-> 0,
                   defaultLanguage |-> dflt[1], fallbackLanguage |-> dflt[2],
                   languages |-> <<Descriptor("zh-CN"), Descriptor("fr")>>]
  /\ docs = [c \in {"zh-CN", "fr"} |-> DocOf([p \in {<<"a", "b">>} |-> "o"])]
  /\ archives = [v \in {} |-> 0]
  /\ faults = {}
  /\ reply = [op |-> "none", status |-> 0]
  /\ pre = Disk(manifest, docs, archives, faults)
  /\ steps = 0
  /\ requests = [i \in RequestIds |-> Idle]

\* POST /language up to its first await: the body is checked, the manifest is
\* read, a code that is listed is answered 409.
StartAddLanguage(i) ==
  /\ requests[i].pc = "idle"
  /\ \E code \in Codes :
       LET languageList == manifest
       IN  requests' = [requests EXCEPT ![i] =
             IF existingLanguage(languageList, code)
             THEN Running("add-language", code, "done", 409, languageList,
                          EmptyDoc, {})
             ELSE Running("add-language", code, "template", 0, languageList,
                          EmptyDoc, {})]
  /\ steps' = steps + 1
  /\ UNCHANGED <<manifest, docs, archives, faults, reply, pre>>

\* The template is read and cleared, the descriptor is pushed on the list in
\* memory, and Promise.all starts the two writes.
ReadTemplate(i) ==
  /\ requests[i].pc = "template"
  /\ LET r == requests[i]
         newLanguage == [code |-> r.code, enabled |-> TRUE]
         template == IF TemplateCode \in DOMAIN docs
                     THEN clearValues(docs[TemplateCode])
                     ELSE EmptyDoc
         pushed == [r.languageList EXCEPT !.languages = Append(@, newLanguage)]
     IN  requests' = [requests EXCEPT ![i] =
           Running(r.op, r.code, "write", 0, pushed, template,
                   {"list", "file"})]
  /\ steps' = steps + 1
  /\ UNCHANGED <<manifest, docs, archives, faults, reply, pre>>

\* What follows a write of the request: the version bump once nothing is
\* pending.
AfterWrite(r, done) ==
  Running(r.op, r.code, IF r.pending = {done} THEN "incRead" ELSE r.pc, 0,
          r.languageList, r.template, r.pending \ {done})

\* fs.writeJson(LANGUAGE_LIST_FILE, languageList) of add-language and of
\* delete-language.
WriteList(i) ==
  /\ requests[i].pc = "write"
  /\ "list" \in requests[i].pending
  /\ manifest' = requests[i].languageList
  /\ requests' = [requests EXCEPT ![i] = AfterWrite(@, "list")]
  /\ steps' = steps + 1
  /\ UNCHANGED <<docs, archives, faults, reply, pre>>

\* fs.writeJson(filePath, template) of add-language.
WriteFile(i) ==
  /\ requests[i].pc = "write"
  /\ "file" \in requests[i].pending
  /\ docs' = WriteDocs(docs, [c \in {requests[i].code} |-> requests[i].template])
  /\ requests' = [requests EXCEPT ![i] = AfterWrite(@, "file")]
  /\ steps' = steps + 1
  /\ UNCHANGED <<manifest, archives, faults, reply, pre>>

\* incrementVersion(): fs.readJson(LANGUAGE_LIST_FILE).
IncrementRead(i) ==
  /\ requests[i].pc = "incRead"
  /\ requests' = [requests EXCEPT ![i].languageList = manifest,
                                  ![i].pc = "incWrite"]
  /\ steps' = steps + 1
  /\ UNCHANGED <<manifest, docs, archives, faults, reply, pre>>

\* IncrementWrite bumping and stamping the list that is on disk when it writes.
IncrementWrite_Rereads(i) ==
  /\ requests[i].pc = "incWrite"
  /\ LET languageList == requests[i].languageList
         newVersion == bumpParts(parseVersion(languageList.version))
         written == [manifest EXCEPT !.version = newVersion,
                                     !.lastUpdated = Now]
     IN  /\ manifest' = written
         /\ requests' = [requests EXCEPT ![i].languageList = written,
                                         ![i].pc = "package"]
  /\ steps' = steps + 1
  /\ UNCHANGED <<docs, archives, faults, reply, pre>>

\* incrementVersion(): the bumped and stamped list is written back.
IncrementWrite(i) ==
  /\ requests[i].pc = "incWrite"
  /\ LET languageList == requests[i].languageList
         newVersion == bumpParts(parseVersion(languageList.version))
         written == [languageList EXCEPT !.version = newVersion,
                                         !.lastUpdated = Now]
     IN  /\ manifest' = written
         /\ requests' = [requests EXCEPT ![i].languageList = written,
                                         ![i].pc = "package"]
  /\ steps' = steps + 1
  /\ UNCHANGED <<docs, archives, faults, reply, pre>>

\* incrementVersion(): createLanguagePackage(newVersion); add-language then
\* answers, delete-language goes on to remove the file.
Package(i) ==
  /\ requests[i].pc = "package"
  /\ LET r == requests[i]
         built == createLanguagePackage(Disk(manifest, docs, archives, faults),
                                        r.languageList.version)
     IN  /\ archives' = built.disk.archives
         /\ requests' = [requests EXCEPT
              ![i].pc = IF ~ built.threw /\ r.op = "delete-language"
                        THEN "remove" ELSE "done",
              ![i].status = IF built.threw THEN 500
                            ELSE IF r.op = "delete-language" THEN 0 ELSE 200]
  /\ steps' = steps + 1
  /\ UNCHANGED <<manifest, docs, faults, reply, pre>>

\* POST /language/:code/delete up to the write of the list: the manifest is
\* read, the code is looked up, then tested for protection, then spliced out
\* of the list in memory.
StartDeleteLanguage(i) ==
  /\ requests[i].pc = "idle"
  /\ \E code \in Codes :
       LET languageList == manifest
       IN  requests' = [requests EXCEPT ![i] =
             IF code \notin LangCodes(languageList)
             THEN Running("delete-language", code, "done", 404, languageList,
                          EmptyDoc, {})
             ELSE IF code \in protectedLanguages
             THEN Running("delete-language", code, "done", 400, languageList,
                          EmptyDoc, {})
             ELSE Running("delete-language", code, "write", 0,
                          [languageList EXCEPT
                             !.languages = spliceCode(@, code)],
                          EmptyDoc, {"list"})]
  /\ steps' = steps + 1
  /\ UNCHANGED <<manifest, docs, archives, faults, reply, pre>>

\* delete-language: the language file is removed when it exists, and the
\* request is answered.
RemoveFile(i) ==
  /\ requests[i].pc = "remove"
  /\ docs' = RemoveDoc(docs, requests[i].code)
  /\ requests' = [requests EXCEPT ![i].pc = "done", ![i].status = 200]
  /\ steps' = steps + 1
  /\ UNCHANGED <<manifest, archives, faults, reply, pre>>

NextLanguages ==
  \E i \in RequestIds :
     \/ StartAddLanguage(i)
     \/ ReadTemplate(i)
     \/ WriteList(i)
     \/ WriteFile(i)
     \/ StartDeleteLanguage(i)
     \/ IncrementRead(i)
     \/ IncrementWrite(i)
     \/ Package(i)
     \/ RemoveFile(i)

SpecLanguages == InitLanguages /\ [][NextLanguages]_vars

--------------------------------------------------------------------------
(* update-key requests, interleaved at their awaits *)

\* What an update-key request of one translation holds between two awaits:
\* its body, the document it read and changed in memory, and the languageList
\* of its incrementVersion().
Updating(code, key, value, pc, status, languageList, languageTranslations) ==
  [op |-> "update-key", code |-> code, key |-> key, value |-> value,
   pc |-> pc, status |-> status, languageList |-> languageList,
   languageTranslations |-> languageTranslations]

\* The languageList of a request that has not called incrementVersion() yet.
NotRead == [languages |-> <<>>]

\* The bodies of the interleaved update-key requests: { key, { code: value } }.
UpdateCodes == {"zh-CN", "fr"}

UpdateKeys == {<<"a", "b">>, <<"a", "c">>}

UpdateValues == {"x", "y"}

InitUpdates ==
  /\ manifest = [version |-> <<1, 0, 0>>, lastUpdated |-> 0,
                 defaultLanguage |-> "zh-CN", fallbackLanguage |-> "zh-CN",
                 languages |-> <<Descriptor("zh-CN"), Descriptor("fr")>>]
  /\ docs = [c \in {"zh-CN", "fr"} |-> DocOf([p \in {<<"a", "b">>} |-> "o"])]
  /\ archives = [v \in {} |-> 0]
  /\ faults = {}
  /\ reply = [op |-> "none", status |-> 0]
  /\ pre = Disk(manifest, docs, archives, faults)
  /\ steps = 0
  /\ requests = [i \in RequestIds |-> Idle]

\* PUT /languages/update-key up to the first await of its loop: the body is
\* checked.
StartUpdateKey(i) ==
  /\ requests[i].pc = "idle"
  /\ \E code \in UpdateCodes, key \in UpdateKeys, value \in UpdateValues :
       requests' = [requests EXCEPT ![i] =
         Updating(code, key, value, "readDoc", 0, NotRead, EmptyDoc)]
  /\ steps' = steps + 1
  /\ UNCHANGED <<manifest, docs, archives, faults, reply, pre>>

\* The language file is read, and the key is set in the object in memory.
ReadDoc(i) ==
  /\ requests[i].pc = "readDoc"
  /\ LET r == requests[i]
         languageTranslations == ReadOrEmpty(docs, r.code)
     IN  requests' = [requests EXCEPT
           ![i].languageTranslations =
              nestedWrite(languageTranslations, r.key, r.value),
           ![i].pc = "writeDoc"]
  /\ steps' = steps + 1
  /\ UNCHANGED <<manifest, docs, archives, faults, reply, pre>>

\* WriteDoc reading the file again and setting the key in what it finds.
WriteDoc_Merges(i) ==
  /\ requests[i].pc = "writeDoc"
  /\ LET r == requests[i]
     IN  docs' = WriteDocs(docs, [c \in {r.code} |->
                   nestedWrite(ReadOrEmpty(docs, c), r.key, r.value)])
  /\ requests' = [requests EXCEPT ![i].pc = "incRead"]
  /\ steps' = steps + 1
  /\ UNCHANGED <<manifest, archives, faults, reply, pre>>

\* fs.writeJson(filePath, languageTranslations): the object in memory is
\* written; the loop is over, and incrementVersion() follows.
WriteDoc(i) ==
  /\ requests[i].pc = "writeDoc"
  /\ LET r == requests[i]
     IN  docs' = WriteDocs(docs, [c \in {r.code} |-> r.languageTranslations])
  /\ requests' = [requests EXCEPT ![i].pc = "incRead"]
  /\ steps' = steps + 1
  /\ UNCHANGED <<manifest, archives, faults, reply, pre>>

NextUpdates ==
  \E i \in RequestIds :
     \/ StartUpdateKey(i)
     \/ ReadDoc(i)
     \/ WriteDoc(i)
     \/ IncrementRead(i)
     \/ IncrementWrite(i)
     \/ Package(i)

SpecUpdates == InitUpdates /\ [][NextUpdates]_vars

--------------------------------------------------------------------------
(* The nested-key helpers on their own *)

\* Number of helper calls in one run.
MaxCalls == 1

\* The key paths of the documents the helpers are tried on.
CodecPaths ==
  {<<"a">>, <<"b">>, <<"a", "b">>, <<"a", "c">>, <<"a", "b", "c">>}

\* What a document may hold at a path: an object, "" or a translation.
CodecNodes == {Obj, "", "o"}

\* Every JSON document over CodecPaths: a path that is there has its parent
\* there, and the parent is an object.
CodecDocs ==
  {d \in UNION {[S -> CodecNodes] : S \in SUBSET CodecPaths} :
     \A q \in DOMAIN d :
        Len(q) > 1 => IsObject(d, SubSeq(q, 1, Len(q) - 1))}

\* Values setNestedKey is given: "", a translation, and the object {c: "x"}.
CodecValues == {Leaf(""), Leaf("x"), DocOf([q \in {<<"c">>} |-> "x"]) @@ Leaf(Obj)}

\* The document the helpers work on is kept in the file of this language.
CodecCode == "zh-CN"

InitCodec ==
  /\ manifest = [version |-> <<1, 0, 0>>, lastUpdated |-> 0,
                 defaultLanguage |-> "zh-CN", fallbackLanguage |-> "zh-CN",
                 languages |-> <<Descriptor(CodecCode)>>]
  /\ \E d \in CodecDocs : docs = [c \in {CodecCode} |-> d]
  /\ archives = [v \in {} |-> 0]
  /\ faults = {}
  /\ reply = [op |-> "none", status |-> 0]
  /\ pre = Disk(manifest, docs, archives, faults)
  /\ steps = 0
  /\ requests = <<>>

\* setNestedKey(data, keyPath, value)
SetNestedKey ==
  /\ steps < MaxCalls
  /\ \E keyPath \in ValidKeys, value \in CodecValues :
       /\ docs' = [docs EXCEPT ![CodecCode] = setNestedKey(@, keyPath, value)]
       /\ reply' = [op |-> "setNestedKey", status |-> 0, key |-> keyPath,
                    value |-> value]
  /\ pre' = Disk(manifest, docs, archives, faults)
  /\ steps' = steps + 1
  /\ UNCHANGED <<manifest, archives, faults, requests>>

\* deleteNestedKey(data, key) of delete-key, with the cleanEmpty of the request.
DeleteNestedKey ==
  /\ steps < MaxCalls
  /\ \E keyPath \in ValidKeys, cleanEmpty \in BOOLEAN :
       \E r \in {deleteNestedKey(docs[CodecCode], keyPath, cleanEmpty)} :
           /\ docs' = [docs EXCEPT ![CodecCode] = r.data]
           /\ reply' = [op |-> "deleteNestedKey", status |-> 0,
                        key |-> keyPath, cleanEmpty |-> cleanEmpty,
                        removed |-> r.removed]
  /\ pre' = Disk(manifest, docs, archives, faults)
  /\ steps' = steps + 1
  /\ UNCHANGED <<manifest, archives, faults, requests>>

\* deleteNestedKey(data, oldKey) of rename-key.
RenameDeleteNestedKey ==
  /\ steps < MaxCalls
  /\ \E keyPath \in ValidKeys :
       \E r \in {renameDeleteNestedKey(docs[CodecCode], keyPath)} :
           /\ docs' = [docs EXCEPT ![CodecCode] = r.data]
           /\ reply' = [op |-> "renameDeleteNestedKey", status |-> 0,
                        key |-> keyPath, cleanEmpty |-> TRUE,
                        removed |-> r.removed]
  /\ pre' = Disk(manifest, docs, archives, faults)
  /\ steps' = steps + 1
  /\ UNCHANGED <<manifest, archives, faults, requests>>

NextCodec ==
  \/ SetNestedKey
  \/ DeleteNestedKey
  \/ RenameDeleteNestedKey

SpecCodec == InitCodec /\ [][NextCodec]_vars

--------------------------------------------------------------------------
(* propagateKeyToAllLanguages on its own *)

PropagateCodes == <<"zh-CN", "zh-TW", "fr">>

\* What a language has on disk before the call: no file, {}, {a: {b: "o"}} or
\* {a: "o"}.
PropagateDocs ==
  {EmptyDoc, DocOf([p \in {<<"a", "b">>} |-> "o"]),
   DocOf([p \in {<<"a">>} |-> "o"])}

PropagateDisks ==
  UNION {[S -> PropagateDocs] : S \in SUBSET Codes}

\* The keys, single updates and provided maps of a call.
PropagateKeys == {<<"a", "b">>, <<"a", "b", "c">>}

SingleUpdates ==
  {<<NoCode, "">>, <<"fr", "x">>, <<"fr", "">>, <<"zh-CN", "x">>}

ProvidedMaps == {NoMap} \cup {Provided(m) : m \in TransMaps}

InitPropagate ==
  /\ manifest = [version |-> <<1, 0, 0>>, lastUpdated |-> 0,
                 defaultLanguage |-> "zh-CN", fallbackLanguage |-> "zh-CN",
                 languages |-> [i \in 1..3 |-> Descriptor(PropagateCodes[i])]]
  /\ docs \in PropagateDisks
  /\ archives = [v \in {} |-> 0]
  /\ faults = {}
  /\ reply = [op |-> "none", status |-> 0]
  /\ pre = Disk(manifest, docs, archives, faults)
  /\ steps = 0
  /\ requests = <<>>

\* propagateKeyToAllLanguages(key, justUpdatedCode, updatedValue, providedMap)
Propagate ==
  /\ steps < MaxCalls
  /\ \E key \in PropagateKeys, single \in SingleUpdates,
        providedMap \in ProvidedMaps :
       \E d \in {propagateKeyToAllLanguages(
                    Disk(manifest, docs, archives, faults), Now, key,
                    single[1], single[2], providedMap)} :
           /\ manifest' = d.manifest
           /\ docs' = d.docs
           /\ archives' = d.archives
           /\ reply' = [op |-> "propagate", status |-> 0, key |-> key,
                        justUpdatedCode |-> single[1],
                        updatedValue |-> single[2],
                        providedMap |-> providedMap]
  /\ pre' = Disk(manifest, docs, archives, faults)
  /\ steps' = steps + 1
  /\ UNCHANGED <<faults, requests>>

SpecPropagate == InitPropagate /\ [][Propagate]_vars

--------------------------------------------------------------------------
(* What the claims speak of *)

\* The files on disk now.
Current == Disk(manifest, docs, archives, faults)

\* Key path k is defined in document d.
Defined(d, k) == k \in DOMAIN d

\* Key path k is defined in the document of language c on disk dk.
DefinedIn(dk, c, k) == c \in DOMAIN dk.docs /\ Defined(dk.docs[c], k)

\* Document d holds the string s at key path k.
Holds(d, k, s) == k \in DOMAIN d /\ d[k] = s

\* The version one bump after v, as claim C1 words it.
OneBump(v) ==
  IF v = NoVersion THEN <<1, 0, 1>>
  ELSE IF v[3] < 99 THEN <<v[1], v[2], v[3] + 1>>
  ELSE IF v[2] < 99 THEN <<v[1], v[2] + 1, 0>>
  ELSE <<v[1] + 1, 0, 0>>

\* (major, minor, patch) of a stored version; none reads as 1.0.0.
Triple(v) == IF v = NoVersion THEN <<1, 0, 0>> ELSE v

\* Lexicographic order on (major, minor, patch).
LexLess(v, w) ==
  \/ v[1] < w[1]
  \/ v[1] = w[1] /\ v[2] < w[2]
  \/ v[1] = w[1] /\ v[2] = w[2] /\ v[3] < w[3]

\* The last request called incrementVersion: it stamped the manifest with the
\* time of the request.
Bumped == steps >= 1 /\ manifest.lastUpdated = steps

\* C1: incrementVersion maps (major, minor, patch), minor and patch in 0..99, to
\* (major, minor, patch+1) when patch < 99, to (major, minor+1, 0) when patch = 99
\* and minor < 99, and to (major+1, 0, 0) when both are 99; a manifest without a
\* version is bumped as 1.0.0 is.
C1_BumpCarries ==
  reply.op = "bump" => manifest.version = OneBump(pre.manifest.version)

C1_Witness ==
  /\ reply.op = "bump"
  /\ pre.manifest.version = <<0, 99, 99>>
  /\ manifest.version = <<1, 0, 0>>

\* C2: over a run of requests the version never decreases, and every request
\* that bumps it leaves it strictly greater, in lexicographic order.
C2_VersionMonotonic ==
  /\ ~ LexLess(Triple(manifest.version), Triple(pre.manifest.version))
  /\ Bumped => LexLess(Triple(pre.manifest.version), Triple(manifest.version))

\* Two bumps in a row, the first one carrying into the major number.
C2_Witness ==
  /\ steps = 2
  /\ Bumped
  /\ pre.manifest.version = <<1, 0, 0>>
  /\ DOMAIN archives = {<<1, 0, 0>>, <<1, 0, 1>>}

\* The requests claim C3 lists, answered with success.
MutationSucceeded ==
  /\ reply.op \in {"add-language", "replace-language", "delete-language",
                   "create-key", "update-key", "rename-key"}
  /\ reply.status = 200

\* C3: each successful add-language, replace-language, delete-language,
\* create-key, update-key and rename-key advances the version by exactly one
\* bump, however many documents it wrote.
C3_OneBumpPerMutation ==
  MutationSucceeded =>
    /\ manifest.version = OneBump(pre.manifest.version)
    /\ DOMAIN archives = DOMAIN pre.archives \cup {manifest.version}

\* The value claim C4 expects language c to hold after create-key.
ExpectedAfterCreate(c) ==
  IF c \in DOMAIN reply.translations.entries
  THEN reply.translations.entries[c]
  ELSE ""

\* C4: after a successful create-key(K, translations) on a state where K is in
\* no document, every language of the manifest holds K, with translations[L]
\* where supplied and "" otherwise, for every translations map.
C4_CreateKeyReachesAll ==
  (/\ reply.op = "create-key"
   /\ reply.status = 200
   /\ \A c \in DOMAIN pre.docs : ~ Defined(pre.docs[c], reply.key))
    => \A c \in LangCodes(manifest) :
         /\ c \in DOMAIN docs
         /\ Holds(docs[c], reply.key, ExpectedAfterCreate(c))

\* C5: create-key(K, ...) when K is defined in the document of some language of
\* the manifest is answered 409 and writes nothing.
C5_CreateKeyConflict ==
  (/\ reply.op = "create-key"
   /\ reply.key # EmptyKey
   /\ reply.translations.isObject
   /\ \E c \in LangCodes(pre.manifest) : DefinedIn(pre, c, reply.key))
    => reply.status = 409 /\ Current = pre

C5_Witness ==
  /\ reply.op = "create-key"
  /\ reply.status = 409
  /\ DefinedIn(pre, "fr", reply.key)
  /\ ~ DefinedIn(pre, "zh-CN", reply.key)

\* C6: after a successful update-key(K, translations), K is defined in every
\* language of the manifest: the supplied value where translations names the
\* language, "" where it does not and K was absent.
C6_UpdateKeyPropagates ==
  (reply.op = "update-key" /\ reply.status = 200)
    => \A c \in LangCodes(manifest) :
         /\ c \in DOMAIN docs
         /\ Defined(docs[c], reply.key)
         /\ c \in DOMAIN reply.translations.entries
              => Holds(docs[c], reply.key, reply.translations.entries[c])
         /\ (c \notin DOMAIN reply.translations.entries
               /\ ~ DefinedIn(pre, c, reply.key))
              => Holds(docs[c], reply.key, "")

\* A rename-key request that passes the input checks.
RenameAccepted ==
  /\ reply.op = "rename-key"
  /\ KEY_PATTERN(reply.oldKey)
  /\ KEY_PATTERN(reply.newKey)
  /\ reply.oldKey # reply.newKey

\* C7: rename-key(old, new) without overwrite, when new is defined in the
\* document of some language of the manifest, is answered 409 and changes
\* nothing.
C7_RenameConflict ==
  (/\ RenameAccepted
   /\ ~ reply.overwrite
   /\ \E c \in LangCodes(pre.manifest) : DefinedIn(pre, c, reply.newKey))
    => reply.status = 409 /\ Current = pre

\* The scenario of the specification: old is in one language, new in another.
C7_Witness ==
  /\ RenameAccepted
  /\ reply.status = 409
  /\ DefinedIn(pre, "zh-CN", reply.oldKey)
  /\ ~ DefinedIn(pre, "zh-CN", reply.newKey)
  /\ DefinedIn(pre, "fr", reply.newKey)

\* C8: after a successful rename-key(old, new), every language of the manifest
\* whose document held a value at old holds that value at new, and old is no
\* longer defined, whatever the two paths are.
C8_RenameMoves ==
  (reply.op = "rename-key" /\ reply.status = 200)
    => \A c \in LangCodes(manifest) :
         DefinedIn(pre, c, reply.oldKey)
           => /\ Subtree(docs[c], reply.newKey)
                   = Subtree(pre.docs[c], reply.oldKey)
              /\ ~ Defined(docs[c], reply.oldKey)

\* C9: delete-key(K) bumps the version exactly once if K was removed from the
\* document of some language of the manifest, and otherwise answers success and
\* leaves everything as it was.
C9_DeleteKeyBump ==
  (reply.op = "delete-key" /\ reply.status = 200)
    => IF \E c \in LangCodes(pre.manifest) : DefinedIn(pre, c, reply.key)
       THEN /\ manifest.version = OneBump(pre.manifest.version)
            /\ DOMAIN archives = DOMAIN pre.archives \cup {manifest.version}
            /\ \A c \in LangCodes(manifest) : ~ DefinedIn(Current, c, reply.key)
       ELSE Current = pre

C9_Witness ==
  /\ reply.op = "delete-key"
  /\ reply.status = 200
  /\ DefinedIn(pre, "zh-CN", reply.key)
  /\ ~ DefinedIn(pre, "fr", reply.key)
  /\ manifest.version = <<0, 1, 0>>

C9_WitnessNotFound ==
  /\ reply.op = "delete-key"
  /\ reply.status = 200
  /\ reply.deletedLanguages = {}
  /\ steps = 2

\* C10 as stated: delete-language on a protected code is answered 400 and
\* changes nothing, whether or not the code is in the manifest.
C10_ProtectedAlways400 ==
  (reply.op = "delete-language" /\ reply.code \in protectedLanguages)
    => reply.status = 400 /\ Current = pre

\* C10 as the code has it: delete-language on a protected code is answered 400
\* when the code is in the manifest and 404 when it is not, and changes nothing
\* either way.
C10_ProtectedUnchanged ==
  (reply.op = "delete-language" /\ reply.code \in protectedLanguages)
    => /\ reply.status
            = (IF reply.code \in LangCodes(pre.manifest) THEN 400 ELSE 404)
       /\ Current = pre

\* zh-TW was added by the request before, and cannot be deleted again.
C10_Witness ==
  /\ reply.op = "delete-language"
  /\ reply.code = "zh-TW"
  /\ reply.status = 400

\* The default and the fallback language of the manifest.
CoreLanguages == {manifest.defaultLanguage, manifest.fallbackLanguage}

\* C11: whatever delete-language requests were served, the default and the
\* fallback language of the manifest each have a descriptor in the manifest and
\* a document on disk.
C11_DefaultsKept ==
  \A c \in CoreLanguages : c \in LangCodes(manifest) /\ c \in DOMAIN docs

\* No two descriptors of the list have the same code.
UniqueCodes(languageList) ==
  \A i, j \in DOMAIN languageList.languages :
     languageList.languages[i].code = languageList.languages[j].code => i = j

\* An add-language request arrives for a code the manifest lists: it is answered
\* 409 and no file changes.
AddConflictStep ==
  \A i \in RequestIds :
     (/\ requests[i].pc = "idle"
      /\ requests'[i].op = "add-language"
      /\ requests'[i].code \in LangCodes(manifest))
       => /\ requests'[i].status = 409
          /\ UNCHANGED <<manifest, docs, archives>>

ClearedCopy(t, d) ==
  /\ DOMAIN d = DOMAIN t
  /\ \A q \in DOMAIN t : d[q] = (IF t[q] = Obj THEN Obj ELSE "")

WriteSucceeded ==
  /\ reply.op \in {"add-language", "replace-language", "delete-language",
                   "create-key", "update-key", "rename-key", "delete-key"}
  /\ reply.status = 200

\* C14: when a request that writes is answered with success and the version of
\* the manifest is no longer the one it found, the archive of the manifest's
\* version exists, also in runs in which the archiver fails.
C14_BumpSeenWithArchive ==
  (WriteSucceeded /\ manifest.version # pre.manifest.version)
    => manifest.version \in DOMAIN archives

\* C15: when a request that writes has bumped the version and is answered with
\* success, the archive of the new version holds the manifest and exactly the
\* documents that are on disk then; after delete-language it does not hold the
\* document of the deleted language.
C15_ArchiveIsDisk ==
  (WriteSucceeded /\ manifest.version # pre.manifest.version)
    => /\ manifest.version \in DOMAIN archives
       /\ archives[manifest.version] = [manifest |-> manifest, docs |-> docs]

\* The last request was one of the four reads.
ReadServed ==
  reply.op \in {"get-language", "data-complete", "download-latest",
                "download-file"}

\* C16: GET /language/:code, GET /data/complete, GET /download/latest and
\* GET /download/file/:fileName leave the manifest and every language document
\* as they were, whatever they are asked for; a language without a file is
\* answered 404.
C16_ReadsChangeNothing ==
  /\ ReadServed => manifest = pre.manifest /\ docs = pre.docs
  /\ (reply.op = "get-language" /\ reply.code \notin DOMAIN pre.docs)
       => reply.status = 404

\* GET /download/latest after a request that changed nothing found no archive
\* of the current version and built it.
C16_Witness ==
  /\ reply.op = "download-latest"
  /\ reply.status = 200
  /\ steps = 2
  /\ manifest.version \notin DOMAIN pre.archives
  /\ manifest.version \in DOMAIN archives

\* C17: for every document, every key path and every value, also when a
\* segment before the last holds a string or is absent, getNestedValue reads
\* back at the key path what setNestedKey stored there.
C17_SetThenGet ==
  reply.op = "setNestedKey"
    => getNestedValue(docs[CodecCode], reply.key) = reply.value

\* a.b held a translation and a.b.c is set: a.b becomes an object.
C17_Witness ==
  /\ reply.op = "setNestedKey"
  /\ reply.key = <<"a", "b", "c">>
  /\ reply.value = Leaf("x")
  /\ Holds(pre.docs[CodecCode], <<"a", "b">>, "o")
  /\ Holds(docs[CodecCode], <<"a", "b", "c">>, "x")

\* Removing key path k from d leaves the ancestor q of k without keys, directly
\* or because the ancestors below q went the same way: everything d holds
\* under q is on the way to k or under k.
LeftEmpty(d, k, q) ==
  /\ q \in DOMAIN d
  /\ IsProperPrefix(q, k)
  /\ \A p \in DOMAIN d :
        IsProperPrefix(q, p) => (IsPrefix(p, k) \/ IsPrefix(k, p))

\* d without k and what is under it.
Without(d, k) == [q \in {p \in DOMAIN d : ~ IsPrefix(k, p)} |-> d[q]]

\* d without k, what is under it, and the ancestors that leaves empty.
WithoutPruned(d, k) ==
  [q \in {p \in DOMAIN d : ~ IsPrefix(k, p) /\ ~ LeftEmpty(d, k, p)} |-> d[q]]

\* The last call was one of the two deleteNestedKey helpers.
DeleteCalled == reply.op \in {"deleteNestedKey", "renameDeleteNestedKey"}

\* C18 as stated: deleting a defined key path reports a removal and leaves the
\* document without the key and without the ancestors the removal emptied, all
\* else unchanged; deleting an undefined one reports none and changes nothing.
C18_DeleteAlwaysPrunes ==
  DeleteCalled
    => IF Defined(pre.docs[CodecCode], reply.key)
       THEN /\ reply.removed
            /\ docs[CodecCode] = WithoutPruned(pre.docs[CodecCode], reply.key)
       ELSE /\ ~ reply.removed
            /\ docs[CodecCode] = pre.docs[CodecCode]

\* C18 as the code has it: the emptied ancestors are removed by rename-key, and
\* by delete-key when cleanEmpty is true (its default); with cleanEmpty false
\* delete-key removes the key and leaves the emptied ancestors in place.
C18_DeletePrunesWhenCleaning ==
  DeleteCalled
    => IF Defined(pre.docs[CodecCode], reply.key)
       THEN /\ reply.removed
            /\ ~ Defined(docs[CodecCode], reply.key)
            /\ docs[CodecCode]
                 = (IF reply.cleanEmpty
                    THEN WithoutPruned(pre.docs[CodecCode], reply.key)
                    ELSE Without(pre.docs[CodecCode], reply.key))
       ELSE /\ ~ reply.removed
            /\ docs[CodecCode] = pre.docs[CodecCode]

\* a.b.c is deleted from {a: {b: {c: "o"}, c: "o"}}: a.b goes with it, a and
\* a.c stay.
C18_Witness ==
  /\ reply.op = "deleteNestedKey"
  /\ reply.cleanEmpty
  /\ reply.removed
  /\ reply.key = <<"a", "b", "c">>
  /\ Holds(pre.docs[CodecCode], <<"a", "c">>, "o")
  /\ DOMAIN docs[CodecCode] = {<<"a">>, <<"a", "c">>}

\* The call of propagate supplies a value for language c in providedValues.
Supplies(c) ==
  ~ reply.providedMap.isNull /\ c \in DOMAIN reply.providedMap.entries

\* The value the precedence of claim C19 gives language c.
FillValue(c) ==
  IF Supplies(c) THEN reply.providedMap.entries[c]
  ELSE IF c = reply.justUpdatedCode THEN reply.updatedValue
  ELSE ""

C20_ExistingSurvive ==
  reply.op = "propagate"
    => \A c \in LangCodes(manifest) :
         (/\ DefinedIn(pre, c, reply.key)
          /\ ~ Supplies(c)
          /\ c # reply.justUpdatedCode)
           => /\ c \in DOMAIN docs
              /\ Subtree(docs[c], reply.key) = Subtree(pre.docs[c], reply.key)

\* propagate a.b with {zh-CN: "x"}: fr keeps its translation, zh-CN gets the
\* provided value over its own, zh-TW, which had no file, gets "".
C20_Witness ==
  /\ reply.op = "propagate"
  /\ reply.key = <<"a", "b">>
  /\ reply.providedMap = Provided([c \in {"zh-CN"} |-> "x"])
  /\ reply.justUpdatedCode = NoCode
  /\ DefinedIn(pre, "fr", reply.key)
  /\ DefinedIn(pre, "zh-CN", reply.key)
  /\ "zh-TW" \notin DOMAIN pre.docs
  /\ Holds(docs["fr"], reply.key, "o")
  /\ Holds(docs["zh-CN"], reply.key, "x")
  /\ Holds(docs["zh-TW"], reply.key, "")

\* Every key path defined in the document of some language of the manifest of
\* disk dk is defined in the documents of all of them.
KeysEverywhere(dk) ==
  \A c1, c2 \in LangCodes(dk.manifest) :
     c1 \in DOMAIN dk.docs
       => \A k \in DOMAIN dk.docs[c1] : DefinedIn(dk, c2, k)

\* C21: a create-key, update-key, rename-key, delete-key, add-language or
\* replace-language request served in a state in which the languages of the
\* manifest define the same key paths leaves them defining the same key paths.
C21_KeysStayEverywhere ==
  (/\ reply.op \in {"create-key", "update-key", "rename-key", "delete-key",
                    "add-language", "replace-language"}
   /\ KeysEverywhere(pre))
    => KeysEverywhere(Current)

\* The languages the last create-key or update-key named whose file can be
\* written, and those whose file cannot.
NamedWritable == DOMAIN reply.translations.entries \ faults

NamedFailing == DOMAIN reply.translations.entries \cap faults

\* C22: when the file of one language cannot be written, a successful
\* create-key or update-key has written every other language it names and
\* lists the failing one in errors, and the propagation of create-key has
\* given the key to every other language of the manifest.
C22_FailureDoesNotAbort ==
  (reply.op \in {"create-key", "update-key"} /\ reply.status = 200)
    => /\ \A c \in NamedWritable :
            Holds(docs[c], reply.key, reply.translations.entries[c])
       /\ reply.errors = NamedFailing
       /\ (reply.op = "create-key" /\ NamedWritable # {})
            => \A c \in LangCodes(manifest) \ faults :
                 DefinedIn(Current, c, reply.key)

\* The key paths of the last key request that do not match KEY_PATTERN.
MalformedKeys ==
  IF reply.op \in {"create-key", "update-key", "delete-key"}
    THEN {k \in {reply.key} : ~ KEY_PATTERN(k)}
    ELSE IF reply.op = "rename-key"
           THEN {k \in {reply.oldKey, reply.newKey} : ~ KEY_PATTERN(k)}
           ELSE {}

\* C23: create-key, update-key, rename-key and delete-key answer 400 to a key
\* path that does not match the pattern, and leave the manifest, the documents
\* and the archives as they were.
C23_MalformedKeyRejected ==
  MalformedKeys # {} => (reply.status = 400 /\ Current = pre)

\* A create-key request that repeats the body of the request answered just
\* before it, which was a create-key answered with success.
Resubmitted ==
  /\ reply.op = "create-key"
  /\ reply.status = 200
  /\ reply'.op = "create-key"
  /\ reply'.key = reply.key
  /\ reply'.translations = reply.translations

\* C24: a create-key submitted again right after it was answered with success
\* is answered 409 and changes neither the manifest, the documents nor the
\* archives.
C24_ResubmitConflicts ==
  [][Resubmitted => (/\ reply'.status = 409
                     /\ manifest' = manifest
                     /\ docs' = docs
                     /\ archives' = archives)]_vars

\* C25: create-package leaves the manifest (its version and lastUpdated) and
\* the documents as they were and touches no archive of another version; after
\* it the archive of the current version holds the manifest and the documents
\* that are on disk, and a further call changes nothing.
C25_CreatePackageRebuilds ==
  reply.op = "create-package"
    => /\ reply.status = 200
       /\ manifest = pre.manifest
       /\ docs = pre.docs
       /\ DOMAIN archives = DOMAIN pre.archives \cup {manifest.version}
       /\ archives[manifest.version] = [manifest |-> manifest, docs |-> docs]
       /\ \A v \in DOMAIN pre.archives \ {manifest.version} :
            archives[v] = pre.archives[v]
       /\ createPackage(Current).disk = Current

\* create-package called when the archive of the current version is there.
C25_Witness ==
  /\ reply.op = "create-package"
  /\ reply.status = 200
  /\ manifest.version \in DOMAIN pre.archives

\* Every request of the run has been answered.
AllDone == \A i \in RequestIds : requests[i].pc = "done"

\* Two update-key requests that set different keys of the same language.
SameDocument(i, j) ==
  /\ i # j
  /\ requests[i].code = requests[j].code
  /\ requests[i].key # requests[j].key

\* C26: two update-key requests on different keys of one language document,
\* interleaved at their awaits, both report success, and the document is then
\* the one that one of them held in memory (what it read, with its own key
\* set): the last writer wins, and the change of the other is lost when the
\* last writer read before the other wrote.
C26_LastWriterWins ==
  AllDone =>
    \A i \in RequestIds :
       /\ requests[i].status = 200
       /\ \E k \in RequestIds :
            /\ requests[k].code = requests[i].code
            /\ docs[requests[i].code] = requests[k].languageTranslations

\* The lost update: both requests reported success and the document holds the
\* value of one of them only.
C26_Witness ==
  \E i, j \in RequestIds :
     /\ AllDone
     /\ SameDocument(i, j)
     /\ requests[i].status = 200 /\ requests[j].status = 200
     /\ Holds(docs[requests[i].code], requests[i].key, requests[i].value)
     /\ ~ Holds(docs[requests[j].code], requests[j].key, requests[j].value)

\* C27: however the requests interleave, no write of the manifest stores a
\* version lower than the one it replaces.
C27_VersionNeverDecreases ==
  [][~ LexLess(Triple(manifest'.version), Triple(manifest.version))]_vars

\* Request i writes the manifest back in its incrementVersion().
WritesBack(i) ==
  requests[i].pc = "incWrite" /\ requests'[i].pc = "package"

\* C28 as claimed: the write-back of a version bump leaves the language list
\* of the manifest as add-language and delete-language requests have made it:
\* it drops no descriptor and restores none.
C28_BumpKeepsList ==
  [][\A i \in RequestIds :
       WritesBack(i) => manifest'.languages = manifest.languages]_vars

\* C28: the write-back of a version bump stores the language list the bump
\* read, whatever a concurrent add-language or delete-language has written to
\* the manifest since.
C28_BumpWritesWhatItRead ==
  [][\A i \in RequestIds :
       WritesBack(i) =>
         manifest'.languages = requests[i].languageList.languages]_vars

\* A request that reported success and whose code no other request names.
Succeeded(i, op) ==
  /\ requests[i].op = op
  /\ requests[i].status = 200
  /\ \A j \in RequestIds \ {i} :
       requests[j].op = "none" \/ requests[j].code # requests[i].code

\* All requests are answered, and the list lacks a language whose add-language
\* reported success.
C28_Witness ==
  /\ AllDone
  /\ \E i \in RequestIds :
       /\ Succeeded(i, "add-language")
       /\ requests[i].code \notin LangCodes(manifest)

\* Document `after` has at every key path of `before` other than k what
\* `before` had there, and nothing new except at k and the objects above it.
OnlyChangedAt(before, after, k) ==
  /\ \A p \in DOMAIN before \ {k} : p \in DOMAIN after /\ after[p] = before[p]
  /\ \A p \in DOMAIN after \ DOMAIN before : IsPrefix(p, k)

\* C29: a successful create-key or update-key of key K leaves, in every
\* document, the value at every key path other than K as it was: a string
\* above K and a subtree below K included.
C29_OtherPathsKept ==
  (reply.op \in {"create-key", "update-key"} /\ reply.status = 200)
    => \A c \in DOMAIN pre.docs :
          /\ c \in DOMAIN docs
          /\ OnlyChangedAt(pre.docs[c], docs[c], reply.key)

\* Key path p is at k or below it.
AtOrBelow(p, k) == IsPrefix(k, p)

\* The object at p, above oldKey, held nothing but the way to oldKey, so that
\* removing oldKey empties it.
EmptiedBy(before, p, oldKey) ==
  /\ IsProperPrefix(p, oldKey)
  /\ before[p] = Obj
  /\ \A q \in DOMAIN before :
        IsProperPrefix(p, q) => (IsPrefix(q, oldKey) \/ IsPrefix(oldKey, q))

\* Document `after` differs from `before` at oldKey and newKey only: the key
\* paths of `before` that are not at or below one of the two keep their value,
\* or are objects that removing oldKey emptied, and the new key paths are at
\* newKey, below it, or objects above it.
OnlyMoved(before, after, oldKey, newKey) ==
  /\ \A p \in DOMAIN before :
        (~ AtOrBelow(p, oldKey) /\ ~ AtOrBelow(p, newKey))
          => \/ p \in DOMAIN after /\ after[p] = before[p]
             \/ p \notin DOMAIN after /\ EmptiedBy(before, p, oldKey)
  /\ \A p \in DOMAIN after \ DOMAIN before :
        AtOrBelow(p, newKey) \/ (IsProperPrefix(p, newKey) /\ after[p] = Obj)

\* C30: a successful rename-key(oldKey, newKey) changes, in every document,
\* nothing but the entries at oldKey and at newKey and the objects that
\* removing oldKey emptied, whatever overwrite is.
C30_RenameTouchesOnlyItsKeys ==
  (reply.op = "rename-key" /\ reply.status = 200)
    => \A c \in DOMAIN pre.docs :
          /\ c \in DOMAIN docs
          /\ OnlyMoved(pre.docs[c], docs[c], reply.oldKey, reply.newKey)

\* C31: whatever requests were served, every language document on disk is the
\* document of a language that has a descriptor in the manifest.
C31_DocumentsAreListed ==
  \A c \in DOMAIN docs : c \in LangCodes(manifest)

\* C32: a create-key that wrote a language it names, and so went on to the
\* propagation, reports success only when every language of the manifest
\* defines the key and the version is one bump ahead, also in runs in which a
\* language file cannot be written.
C32_SuccessMeansPropagated ==
  (reply.op = "create-key" /\ reply.status = 200 /\ NamedWritable # {})
    => /\ \A c \in LangCodes(manifest) : DefinedIn(Current, c, reply.key)
       /\ manifest.version = OneBump(pre.manifest.version)

\* C33: after GET /download/latest answered success, the fileName and the
\* downloadUrl of the answer both name the archive of the manifest's version,
\* that archive is on disk, and GET /download/file with the fileName of the
\* answer succeeds.
C33_LatestNamesTheArchive ==
  (reply.op = "download-latest" /\ reply.status = 200)
    => /\ reply.data.downloadUrl = FileName(ArchivePrefix, manifest.version)
       /\ reply.data.fileName = FileName(ArchivePrefix, manifest.version)
       /\ manifest.version \in DOMAIN archives
       /\ downloadFile(Current, reply.data.fileName).status = 200

====
